---- MODULE Spec2Model ----
(***************************************************************************)
(* The patch lifecycle of `rad patch` (patch/src/lib.rs): the create,     *)
(* update and list flows over the patch store, the monorepo and the       *)
(* commit graph of the working copy.                                      *)
(*                                                                         *)
(* An invocation of the command is a process that walks through the       *)
(* function it runs one blocking step at a time (a read of the store, a   *)
(* prompt, a store write, the sync).  The store, the monorepo and HEAD    *)
(* are shared with the user's other terminals and with replication, whose *)
(* steps interleave with the invocation's.                                *)
(***************************************************************************)
EXTENDS Integers, Sequences, FiniteSets, TLC

VARIABLES
    HEAD,       \* the commit the working copy's HEAD points to
    monorepo,   \* the commits found in storage (the monorepo)
    tips,       \* tracked peer -> tip of its default branch in storage, or "none"
    patches,    \* the patch store of the project, in store iteration order
    inv         \* invocation -> its options, position and local values

vars == <<HEAD, monorepo, tips, patches, inv>>

----------------------------------------------------------------------------
(* Bounds *)

MaxPatches == 2
MaxRevisions == 2
MaxEvents == 1

----------------------------------------------------------------------------
(* The commit graph: A is the root; B and D are children of A; C is a      *)
(* child of B.                                                              *)

Commits == {"A", "B", "C", "D"}

Parent == [c \in Commits |->
             CASE c = "A" -> "none"
               [] c = "B" -> "A"
               [] c = "C" -> "B"
               [] c = "D" -> "A"]

RECURSIVE Ancestors(_)
Ancestors(c) == IF c = "none" THEN {} ELSE {c} \cup Ancestors(Parent[c])

Depth(c) == Cardinality(Ancestors(c))

\* repo.merge_base(a, b): the deepest common ancestor of a and b.
merge_base(a, b) ==
    LET common == Ancestors(a) \cap Ancestors(b)
    IN  CHOOSE c \in common : \A d \in common : Depth(d) <= Depth(c)

----------------------------------------------------------------------------
(* Identities and peers *)

Whoami == "me"
PeerOrder == <<"X", "me">>
Peers == {PeerOrder[i] : i \in 1..Len(PeerOrder)}
UpstreamPeer == "X"

----------------------------------------------------------------------------
(* The patch store (radicle_common::cobs::patch) *)

Revision(oid) == [oid |-> oid, merges |-> {}, reviews |-> {}]

\* Patch::latest: the index and the value of the last revision.
latest(patch) ==
    [version |-> Len(patch.revisions) - 1,
     revision |-> patch.revisions[Len(patch.revisions)]]

\* Patch::version
version(patch) == Len(patch.revisions) - 1

\* Patch::head: the oid of the latest revision.
head(patch) == patch.revisions[Len(patch.revisions)].oid

PatchIds == 1..Len(patches)

\* Patches::proposed: the ids of the patches with at least one revision that
\* the upstream has not merged, in store order.
is_proposed(patch) ==
    /\ Len(patch.revisions) >= 1
    /\ ~ \E m \in latest(patch).revision.merges : m.peer = UpstreamPeer

Ids == [i \in 1..Len(patches) |-> i]

proposed ==
    LET Keep(i) == is_proposed(patches[i])
    IN  SelectSeq(Ids, Keep)

\* Patches::proposed_by
proposed_by(who) ==
    LET Keep(i) == is_proposed(patches[i]) /\ patches[i].author.urn = who
    IN  SelectSeq(Ids, Keep)

\* Patches::resolve_id: identifier i is the id of the i-th patch.
resolve_id(identifier) ==
    IF identifier \in PatchIds THEN [err |-> "none", id |-> identifier]
    ELSE [err |-> "NotFound", id |-> 0]

\* Patches::create: the outcome of creating a patch with one revision.
StoreCreateResult(author, title, oid) ==
    IF oid \notin monorepo
    THEN [err |-> "InvalidOid", store |-> patches, id |-> 0]
    ELSE [err |-> "none",
          store |-> Append(patches,
                           [author |-> [urn |-> author, resolved |-> FALSE],
                            title |-> title,
                            target |-> "Upstream",
                            revisions |-> <<Revision(oid)>>]),
          id |-> Len(patches) + 1]

StoreUpdateResult_any_caller(caller, id, oid) ==
    LET patch == patches[id]
        prev  == latest(patch)
    IN  IF oid = prev.revision.oid
        THEN [err |-> "NoOp", store |-> patches, version |-> 0]
        ELSE IF oid \notin monorepo
        THEN [err |-> "InvalidOid", store |-> patches, version |-> 0]
        ELSE [err |-> "none",
              store |-> [patches EXCEPT ![id].revisions =
                             Append(@, Revision(oid))],
              version |-> prev.version + 1]

\* Patches::update: the outcome of appending a revision to patch id.
StoreUpdateResult(caller, id, oid) ==
    LET patch == patches[id]
        prev  == latest(patch)
    IN  IF patch.author.urn # caller
        THEN [err |-> "NotOwner", store |-> patches, version |-> 0]
        ELSE IF oid = prev.revision.oid
        THEN [err |-> "NoOp", store |-> patches, version |-> 0]
        ELSE IF oid \notin monorepo
        THEN [err |-> "InvalidOid", store |-> patches, version |-> 0]
        ELSE [err |-> "none",
              store |-> [patches EXCEPT ![id].revisions =
                             Append(@, Revision(oid))],
              version |-> prev.version + 1]

----------------------------------------------------------------------------
(* radicle_common::patch::find_merge_targets *)

Target(p) == [peer |-> p, oid |-> tips[p]]

find_merge_targets(h) ==
    LET Merged(p)    == tips[p] # "none" /\ h \in Ancestors(tips[p])
        NotMerged(p) == tips[p] # "none" /\ h \notin Ancestors(tips[p])
        Entries(ps)  == [i \in 1..Len(ps) |-> Target(ps[i])]
    IN  [merged     |-> Entries(SelectSeq(PeerOrder, Merged)),
         not_merged |-> Entries(SelectSeq(PeerOrder, NotMerged))]

----------------------------------------------------------------------------
(* Text.  A text is a sequence of tokens: "n" is a newline, "s" a space,  *)
(* "a" a word, "<" the help block from its opening marker to the end of   *)
(* its first paragraph, ">" its second paragraph up to the closing marker. *)

PATCH_MSG == <<"n", "<", "n", "n", ">", "n">>

IsWhitespace(ch) == ch \in {"n", "s"}

RECURSIVE trim_start(_)
trim_start(s) ==
    IF s # <<>> /\ IsWhitespace(Head(s)) THEN trim_start(Tail(s)) ELSE s

RECURSIVE trim_end(_)
trim_end(s) ==
    IF s # <<>> /\ IsWhitespace(s[Len(s)])
    THEN trim_end(SubSeq(s, 1, Len(s) - 1)) ELSE s

\* str::trim
trim(s) == trim_end(trim_start(s))

\* Editor::trim_newlines(true): newlines at the end of the buffer are dropped.
RECURSIVE trim_newlines(_)
trim_newlines(s) ==
    IF s # <<>> /\ s[Len(s)] = "n"
    THEN trim_newlines(SubSeq(s, 1, Len(s) - 1)) ELSE s

\* str::find: the first position where needle occurs in s, 0 if none.
find(s, needle) ==
    LET at == {i \in 1..(Len(s) - Len(needle) + 1) :
                   SubSeq(s, i, i + Len(needle) - 1) = needle}
    IN  IF at = {} THEN 0 ELSE CHOOSE i \in at : \A j \in at : i <= j

\* str::split_once
split_once(s, sep) ==
    LET i == find(s, sep)
    IN  IF i = 0 THEN [found |-> FALSE, before |-> <<>>, after |-> <<>>]
        ELSE [found |-> TRUE,
              before |-> SubSeq(s, 1, i - 1),
              after  |-> SubSeq(s, i + Len(sep), Len(s))]

\* str::replace(needle, ""): every occurrence of needle is removed.
RECURSIVE remove_all(_, _)
remove_all(s, needle) ==
    LET i == find(s, needle)
    IN  IF i = 0 THEN s
        ELSE SubSeq(s, 1, i - 1)
             \o remove_all(SubSeq(s, i + Len(needle), Len(s)), needle)

\* The buffer the editor is opened with.
Seeded(message) == message \o PATCH_MSG

\* The messages of commits (git2 Commit::message): a summary line, a summary
\* and a body, a summary without the newline that ends it.
Messages == {<<"a", "n">>, <<"a", "n", "n", "a", "n">>, <<"a">>}

\* What the user may save in the editor that was opened with message: the
\* buffer as it was seeded, a title and a description, a blank title and a
\* description, a single line.
SavedBuffers(message) ==
    { Seeded(message),
      <<"a", "n", "n", "a", "n">>,
      <<"s", "n", "n", "a">>,
      <<"a", "n">> }

\* edit_message, from the buffer the editor returns: the title and the
\* description, or the error.
parse_message(saved) ==
    LET message == trim_newlines(saved)
        parts   == split_once(message, <<"n", "n">>)
    IN  IF ~parts.found
        THEN [err |-> "InvalidMessage", title |-> <<>>, description |-> <<>>]
        ELSE [err |-> "none",
              title |-> trim(parts.before),
              description |-> remove_all(trim(parts.after), trim(PATCH_MSG))]

\* The inputs of edit_message: the message of the HEAD commit and the buffer
\* the user saves.
EditorInputs ==
    UNION {{[message |-> m, saved |-> b] : b \in SavedBuffers(m)} : m \in Messages}

\* The inputs of edit_message that give the title "a" or no title at all.
PlainInputs ==
    {i \in EditorInputs : \/ parse_message(i.saved).err # "none"
                          \/ parse_message(i.saved).title = <<"a">>}

----------------------------------------------------------------------------
(* Invocations of the command *)

Procs == {"p1", "p2"}

NoPatch == [author |-> [urn |-> "none", resolved |-> FALSE], title |-> <<>>,
            target |-> "Upstream", revisions |-> <<>>]

NoUpdate == [kind |-> "No", id |-> 0]

Idle == [pc |-> "idle", list |-> FALSE, update |-> NoUpdate, sync |-> TRUE,
         head_oid |-> "none", target_oid |-> "none", merge_base_oid |-> "none",
         patch_id |-> 0, patch |-> NoPatch, current |-> 0, new |-> 0,
         title |-> <<>>, description |-> <<>>,
         result |-> "none", message |-> "none",
         saved |-> <<>>,
         out |-> <<>>,
         \* what the invocation has done so far
         store0 |-> <<>>, candidates |-> <<>>, asked |-> <<>>,
         steps |-> <<>>, writes |-> 0, syncs |-> 0]

\* Options::from_args: the options a command line can give.
Identifiers == 1..MaxPatches
UpdateModes == {NoUpdate, [kind |-> "Any", id |-> 0]}
                   \cup {[kind |-> "Patch", id |-> i] : i \in Identifiers}

Panics == {"PanicTodo", "PanicAssert"}

\* The exit code of the process for a result of the flow.
ExitCode(result) ==
    IF result = "Ok" THEN 0 ELSE IF result \in Panics THEN 101 ELSE 1

\* The hint an error carries (Error::WithHint).
Hint(result) ==
    IF result = "HeadNotInStorage"
    THEN "hint: run git push rad and try again"
    ELSE "none"

\* The answer to a prompt, as the invocation records it.
Asked(prompt, answer) == [prompt |-> prompt, answer |-> answer]

Set(p, r) == inv' = [inv EXCEPT ![p] = r]

\* No invocation of the command is running.
Quiet == \A p \in Procs : inv[p].pc = "idle"

Finish(p, result) == Set(p, [inv[p] EXCEPT !.pc = "done", !.result = result])

----------------------------------------------------------------------------
(* The decisions of the flows *)

\* (mutant) the lookup in storage is skipped.
head_in_storage_skipped(oid) == TRUE

\* create: whether the HEAD commit is found in storage.
head_in_storage(oid) == oid \in monorepo

\* (mutant) with no not-merged target the flow goes on with the root commit.
choose_target_fallback(not_merged) ==
    IF Len(not_merged) = 0
    THEN [err |-> "none", oid |-> "A"]
    ELSE IF Len(not_merged) = 1
    THEN [err |-> "none", oid |-> not_merged[1].oid]
    ELSE [err |-> "PanicTodo", oid |-> "none"]

\* create: the merge target among the not-merged targets.
choose_target(not_merged) ==
    IF Len(not_merged) = 0
    THEN [err |-> "NoMergeTarget", oid |-> "none"]
    ELSE IF Len(not_merged) = 1
    THEN [err |-> "none", oid |-> not_merged[1].oid]
    ELSE [err |-> "PanicTodo", oid |-> "none"]

\* (mutant) a patch that is at patch_head is not skipped.
find_unmerged_with_base_at_head(patch_head, target_head, mb) ==
    LET Keep(i) ==
            /\ latest(patches[i]).revision.merges = {}
            /\ merge_base(head(patches[i]), target_head) = mb
    IN  SelectSeq(proposed_by(Whoami), Keep)

\* (mutant) the patches of every author are looked at.
find_unmerged_with_base_of_all(patch_head, target_head, mb) ==
    LET Keep(i) ==
            /\ latest(patches[i]).revision.merges = {}
            /\ head(patches[i]) # patch_head
            /\ merge_base(head(patches[i]), target_head) = mb
    IN  SelectSeq(proposed, Keep)

\* find_unmerged_with_base: the ids of my proposed patches that are not
\* merged, are not at patch_head and fork from merge_base.
find_unmerged_with_base(patch_head, target_head, mb) ==
    LET Keep(i) ==
            /\ latest(patches[i]).revision.merges = {}
            /\ head(patches[i]) # patch_head
            /\ merge_base(head(patches[i]), target_head) = mb
    IN  SelectSeq(proposed_by(Whoami), Keep)

\* (mutant) the last match is taken without looking at the others.
select_candidate_last(result) ==
    IF result # <<>>
    THEN [err |-> "none", id |-> result[Len(result)]]
    ELSE [err |-> "NoUpdateCandidate", id |-> 0]

\* create, Update::Any: the patch to update among the matcher's result.
select_candidate(result) ==
    IF result # <<>>
    THEN IF SubSeq(result, 1, Len(result) - 1) = <<>>
         THEN [err |-> "none", id |-> result[Len(result)]]
         ELSE [err |-> "AmbiguousUpdate", id |-> 0]
    ELSE [err |-> "NoUpdateCandidate", id |-> 0]

\* create, Update::Patch: the patch the identifier names.
select_patch(identifier) ==
    LET r == resolve_id(identifier)
    IN  IF r.err # "none" THEN [err |-> r.err, id |-> 0]
        ELSE IF r.id \in PatchIds THEN [err |-> "none", id |-> r.id]
        ELSE [err |-> "PatchNotFound", id |-> 0]

\* (mutant) head is compared with the first revision of the patch.
up_to_date_never(patch, head_oid) == FALSE

up_to_date_first(patch, head_oid) == patch.revisions[1].oid = head_oid

\* update: whether the patch is already at head.
up_to_date(patch, head_oid) == latest(patch).revision.oid = head_oid

\* create, update: whether the answer to a prompt lets the flow go on.
update_confirmed_never(answer) == FALSE

update_confirmed(answer) == answer

revision_confirmed(answer) == answer

continue_confirmed(answer) == answer

\* (mutant) the answer to "Create patch?" is not looked at.
create_confirmed_never(answer) == FALSE

create_confirmed_always(answer) == TRUE

create_confirmed(answer) == answer

\* (mutant) the returned version is compared with the version read before.
sync_enabled_always(sync) == TRUE

\* create, update: "if options.sync" after the store write.
sync_enabled(sync) == sync

version_assert_same(new, current) == new = current

\* update: the assertion on the version store.update returns.
version_assert(new, current) == new = current + 1

----------------------------------------------------------------------------
(* The list flow *)

\* print: the events of a revision, one per merge and per review.
Events(revision) ==
    {[timestamp |-> m.timestamp, kind |-> "merged", peer |-> m.peer] :
         m \in revision.merges}
    \cup {[timestamp |-> r.timestamp, kind |-> r.verdict, peer |-> r.peer] :
              r \in revision.reviews}

\* sort_by_key: the events by ascending timestamp.
RECURSIVE sort_by_key(_)
sort_by_key(events) ==
    IF events = {} THEN <<>>
    ELSE LET first == CHOOSE e \in events :
                          \A f \in events : e.timestamp <= f.timestamp
         IN  <<first>> \o sort_by_key(events \ {first})

Reverse(s) == [i \in 1..Len(s) |-> s[Len(s) + 1 - i]]

timeline_oldest_first(patch) ==
    sort_by_key(Events(patch.revisions[Len(patch.revisions)]))

\* print: the timeline as rendered, most recent first.
timeline(patch) == Reverse(sort_by_key(Events(patch.revisions[Len(patch.revisions)])))

\* print: the in-memory patch after the names of its author and of its
\* reviews' authors are resolved.
resolve(patch) ==
    [patch EXCEPT
        !.author.resolved = TRUE,
        !.revisions = [i \in 1..Len(patch.revisions) |->
            [patch.revisions[i] EXCEPT
                !.reviews = {[r EXCEPT !.resolved = TRUE] : r \in @}]]]

\* print: what is shown of one patch.
print(id) ==
    [id |-> id, patch |-> resolve(patches[id]), timeline |-> timeline(patches[id])]

\* (mutant) the patches are stored as they were resolved for display.
list_store_resolved == [i \in 1..Len(patches) |-> resolve(patches[i])]

list_store_proposed == [i \in 1..Len(proposed) |-> patches[proposed[i]]]

\* list: what the store holds after the flow.
list_store == patches

\* list: the patches I proposed, then those others proposed.
List(p) ==
    /\ inv[p].pc = "list"
    /\ LET Own(i)   == patches[i].author.urn = Whoami
           Other(i) == patches[i].author.urn # Whoami
           own      == SelectSeq(proposed, Own)
           other    == SelectSeq(proposed, Other)
           shown    == [i \in 1..Len(own) |-> print(own[i])]
                       \o [i \in 1..Len(other) |-> print(other[i])]
       IN  Set(p, [inv[p] EXCEPT !.pc = "done", !.result = "Ok", !.out = shown])
    /\ patches' = list_store
    /\ UNCHANGED <<HEAD, monorepo, tips>>

----------------------------------------------------------------------------
(* The create flow *)

\* run: the command starts with the options of its command line.
Begin(p) ==
    /\ inv[p].pc = "idle"
    /\ \E list \in BOOLEAN, sync \in BOOLEAN, update \in UpdateModes :
          /\ list => (sync /\ update = NoUpdate)
          /\ Set(p, [Idle EXCEPT !.pc = IF list THEN "list" ELSE "head",
                                 !.list = list, !.sync = sync, !.update = update,
                                 !.store0 = patches])
    /\ UNCHANGED <<HEAD, monorepo, tips, patches>>

\* run, while no other invocation of the command is running.
Start(p) == Quiet /\ Begin(p)

\* run: the process ends.
Exit(p) ==
    /\ inv[p].pc = "done"
    /\ Set(p, Idle)
    /\ UNCHANGED <<HEAD, monorepo, tips, patches>>

\* create: HEAD is read; it must point to a commit and be on a branch.
ReadHead(p) ==
    /\ inv[p].pc = "head"
    /\ \E on_branch \in BOOLEAN :
          IF on_branch
          THEN Set(p, [inv[p] EXCEPT !.pc = "verify", !.head_oid = HEAD,
                                     !.steps = Append(@, "head")])
          ELSE Finish(p, "InvalidHead")
    /\ UNCHANGED <<HEAD, monorepo, tips, patches>>

\* create: the HEAD commit is looked up in storage.
VerifyHead(p) ==
    /\ inv[p].pc = "verify"
    /\ IF head_in_storage(inv[p].head_oid)
       THEN Set(p, [inv[p] EXCEPT !.pc = "targets",
                                  !.steps = Append(@, "verify")])
       ELSE Finish(p, "HeadNotInStorage")
    /\ UNCHANGED <<HEAD, monorepo, tips, patches>>

\* create: the merge target and the merge base.
ResolveTarget(p) ==
    /\ inv[p].pc = "targets"
    /\ LET targets == find_merge_targets(inv[p].head_oid)
           target  == choose_target(targets.not_merged)
       IN  IF target.err # "none"
           THEN Finish(p, target.err)
           ELSE Set(p, [inv[p] EXCEPT
                           !.pc = "mode",
                           !.steps = Append(@, "target"),
                           !.target_oid = target.oid,
                           !.merge_base_oid = merge_base(target.oid, inv[p].head_oid)])
    /\ UNCHANGED <<HEAD, monorepo, tips, patches>>

\* create: the patch to update, if the update option asks for one.
ResolveMode(p) ==
    /\ inv[p].pc = "mode"
    /\ LET me == inv[p]
           result ==
               IF me.update.kind = "Any"
               THEN find_unmerged_with_base(me.head_oid, me.target_oid,
                                            me.merge_base_oid)
               ELSE <<>>
           selected ==
               IF me.update.kind = "Any"
               THEN select_candidate(result)
               ELSE select_patch(me.update.id)
       IN  IF me.update.kind = "No"
           THEN Set(p, [me EXCEPT !.pc = "continue"])
           ELSE IF selected.err # "none"
           THEN Set(p, [me EXCEPT !.pc = "done", !.result = selected.err,
                                  !.candidates = result])
           ELSE Set(p, [me EXCEPT !.pc = "confirmUpdate",
                                  !.candidates = result,
                                  !.patch_id = selected.id,
                                  !.patch = patches[selected.id]])
    /\ UNCHANGED <<HEAD, monorepo, tips, patches>>

ConfirmUpdate_falls_through(p) ==
    /\ inv[p].pc = "confirmUpdate"
    /\ \E answer \in BOOLEAN :
          LET me == [inv[p] EXCEPT !.asked = Append(@, Asked("Update?", answer))]
          IN  IF ~update_confirmed(answer)
              THEN Set(p, [me EXCEPT !.pc = "continue"])
              ELSE IF up_to_date(me.patch, me.head_oid)
              THEN Set(p, [me EXCEPT !.pc = "done", !.result = "Ok",
                                     !.message = "NothingToDo"])
              ELSE Set(p, [me EXCEPT !.pc = "confirmRevision",
                                     !.current = latest(me.patch).version])
    /\ UNCHANGED <<HEAD, monorepo, tips, patches>>

\* create: "Update?"; on yes update() starts and reads the latest revision
\* of the patch it was given.
ConfirmUpdate(p) ==
    /\ inv[p].pc = "confirmUpdate"
    /\ \E answer \in BOOLEAN :
          LET me == [inv[p] EXCEPT !.asked = Append(@, Asked("Update?", answer))]
          IN  IF ~update_confirmed(answer)
              THEN Set(p, [me EXCEPT !.pc = "done", !.result = "UserAbort"])
              ELSE IF up_to_date(me.patch, me.head_oid)
              THEN Set(p, [me EXCEPT !.pc = "done", !.result = "Ok",
                                     !.message = "NothingToDo"])
              ELSE Set(p, [me EXCEPT !.pc = "confirmRevision",
                                     !.current = latest(me.patch).version])
    /\ UNCHANGED <<HEAD, monorepo, tips, patches>>

\* update: "Continue?"; on yes the revision is appended and the version the
\* store returns is asserted.
ConfirmRevision(p) ==
    /\ inv[p].pc = "confirmRevision"
    /\ \E answer \in BOOLEAN :
          LET me == [inv[p] EXCEPT !.asked = Append(@, Asked("Continue?", answer))]
              r  == StoreUpdateResult(Whoami, me.patch_id, me.head_oid)
          IN  IF ~revision_confirmed(answer)
              THEN Set(p, [me EXCEPT !.pc = "done", !.result = "UserAbort"])
                   /\ UNCHANGED patches
              ELSE IF r.err # "none"
                   THEN Set(p, [me EXCEPT !.pc = "done", !.result = r.err])
                        /\ UNCHANGED patches
                   ELSE /\ me.current + 1 < MaxRevisions
                        /\ patches' = r.store
                        /\ Set(p, [me EXCEPT
                               !.new = r.version,
                               !.writes = @ + 1,
                               !.steps = Append(@, "write"),
                               !.pc = IF ~version_assert(r.version, inv[p].current)
                                      THEN "done"
                                      ELSE IF sync_enabled(inv[p].sync)
                                      THEN "sync" ELSE "done",
                               !.result = IF ~version_assert(r.version, inv[p].current)
                                          THEN "PanicAssert"
                                          ELSE IF sync_enabled(inv[p].sync)
                                          THEN "none" ELSE "Ok"])
    /\ UNCHANGED <<HEAD, monorepo, tips>>

\* create: "Continue?" before the patch message is edited.
ConfirmContinue(p) ==
    /\ inv[p].pc = "continue"
    /\ \E answer \in BOOLEAN :
          LET me == [inv[p] EXCEPT !.asked = Append(@, Asked("Continue?", answer))]
          IN  IF continue_confirmed(answer)
              THEN Set(p, [me EXCEPT !.pc = "editor"])
              ELSE Set(p, [me EXCEPT !.pc = "done", !.result = "UserAbort"])
    /\ UNCHANGED <<HEAD, monorepo, tips, patches>>

\* create: edit_message; the editor is closed without saving, or a buffer is
\* saved and parsed.
EditMessage(p, inputs) ==
    /\ inv[p].pc = "editor"
    /\ \/ Set(p, [inv[p] EXCEPT !.pc = "done", !.result = "UserAbort",
                                  !.asked = Append(@, Asked("editor", FALSE))])
       \/ \E i \in inputs :
             LET m  == parse_message(i.saved)
                 me == [inv[p] EXCEPT !.asked = Append(@, Asked("editor", TRUE)),
                                      !.saved = i.saved]
             IN  IF m.err # "none"
                 THEN Set(p, [me EXCEPT !.pc = "done", !.result = m.err])
                 ELSE Set(p, [me EXCEPT !.pc = "confirmCreate",
                                            !.title = m.title,
                                            !.description = m.description])
    /\ UNCHANGED <<HEAD, monorepo, tips, patches>>

\* create: "Create patch?"; on yes the patch is created.
ConfirmCreate(p) ==
    /\ inv[p].pc = "confirmCreate"
    /\ \E answer \in BOOLEAN :
          LET me == [inv[p] EXCEPT !.asked = Append(@, Asked("Create patch?", answer))]
              r  == StoreCreateResult(Whoami, me.title, me.head_oid)
          IN  IF ~create_confirmed(answer)
              THEN Set(p, [me EXCEPT !.pc = "done", !.result = "UserAbort"])
                   /\ UNCHANGED patches
              ELSE IF r.err # "none"
                   THEN Set(p, [me EXCEPT !.pc = "done", !.result = r.err])
                        /\ UNCHANGED patches
                   ELSE /\ patches' = r.store
                        /\ Set(p, [me EXCEPT
                               !.patch_id = r.id,
                               !.writes = @ + 1,
                               !.steps = Append(@, "write"),
                               !.pc = IF sync_enabled(inv[p].sync)
                                      THEN "sync" ELSE "done",
                               !.result = IF sync_enabled(inv[p].sync)
                                          THEN "none" ELSE "Ok"])
    /\ Len(patches') <= MaxPatches
    /\ UNCHANGED <<HEAD, monorepo, tips>>

\* create, update: rad_sync::run after the store write.
Sync(p) ==
    /\ inv[p].pc = "sync"
    /\ \E synced \in BOOLEAN :
          Set(p, [inv[p] EXCEPT !.pc = "done", !.syncs = @ + 1,
                                !.steps = Append(@, "sync"),
                                !.result = IF synced THEN "Ok" ELSE "SyncFailed"])
    /\ UNCHANGED <<HEAD, monorepo, tips, patches>>

----------------------------------------------------------------------------
(* The user's other terminals and replication *)

\* git checkout / git commit: HEAD moves to another commit.
MoveHead ==
    /\ \E c \in Commits \ {HEAD} : HEAD' = c
    /\ UNCHANGED <<monorepo, tips, patches, inv>>

\* HEAD moves while no invocation of the command is running.
Checkout == Quiet /\ MoveHead

\* git push rad: HEAD and its history are in storage.
Push ==
    /\ Quiet
    /\ ~ (Ancestors(HEAD) \subseteq monorepo)
    /\ monorepo' = monorepo \cup Ancestors(HEAD)
    /\ UNCHANGED <<HEAD, tips, patches, inv>>

EventCount ==
    LET Count(i) == LET R(j) == Cardinality(patches[i].revisions[j].merges)
                                + Cardinality(patches[i].revisions[j].reviews)
                        RECURSIVE Sum(_)
                        Sum(j) == IF j = 0 THEN 0 ELSE R(j) + Sum(j - 1)
                    IN  Sum(Len(patches[i].revisions))
        RECURSIVE Total(_)
        Total(i) == IF i = 0 THEN 0 ELSE Count(i) + Total(i - 1)
    IN  Total(Len(patches))

\* The commits other authors propose as patches.
PeerHeads == {"C"}

\* Replication: a patch another author proposed becomes visible.
PeerPropose ==
    /\ Quiet
    /\ Len(patches) < MaxPatches
    /\ \E c \in monorepo \cap PeerHeads :
          patches' = Append(patches,
                            [author |-> [urn |-> "X", resolved |-> FALSE],
                             title |-> <<"a">>, target |-> "Upstream",
                             revisions |-> <<Revision(c)>>])
    /\ UNCHANGED <<HEAD, monorepo, tips, inv>>

\* Replication: a peer merged the latest revision of a patch.
PeerMerge ==
    /\ Quiet
    /\ EventCount < MaxEvents
    /\ \E i \in PatchIds, peer \in Peers :
          /\ ~ \E m \in latest(patches[i]).revision.merges : m.peer = peer
          /\ patches' = [patches EXCEPT
                 ![i].revisions[Len(patches[i].revisions)].merges =
                     @ \cup {[peer |-> peer, timestamp |-> EventCount + 1]}]
    /\ UNCHANGED <<HEAD, monorepo, tips, inv>>

\* Replication: a peer reviewed the latest revision of a patch.
PeerReview ==
    /\ Quiet
    /\ EventCount < MaxEvents
    /\ \E i \in PatchIds, verdict \in {"Accept"} :
          /\ ~ \E r \in latest(patches[i]).revision.reviews : r.peer = "X"
          /\ patches' = [patches EXCEPT
                 ![i].revisions[Len(patches[i].revisions)].reviews =
                     @ \cup {[peer |-> "X", verdict |-> verdict,
                              timestamp |-> EventCount + 1, resolved |-> FALSE]}]
    /\ UNCHANGED <<HEAD, monorepo, tips, inv>>

----------------------------------------------------------------------------
(* Specifications *)

\* The default-branch tips of the tracked peers the model starts from.
TipConfigs ==
    { [p \in Peers |-> IF p = "X" THEN "A" ELSE "none"],
      [p \in Peers |-> IF p = "X" THEN "B" ELSE "none"],
      [p \in Peers |-> IF p = "X" THEN "A" ELSE "B"],
      [p \in Peers |-> "none"] }

Init ==
    /\ HEAD = "A"
    /\ tips \in TipConfigs
    /\ monorepo = {"A", "B", "C"}
    /\ patches = <<>>
    /\ inv = [p \in Procs |-> Idle]

\* The steps of an invocation that has started.
Run(p, inputs) ==
    \/ List(p)
    \/ ReadHead(p)
    \/ VerifyHead(p)
    \/ ResolveTarget(p)
    \/ ResolveMode(p)
    \/ ConfirmUpdate(p)
    \/ ConfirmRevision(p)
    \/ ConfirmContinue(p)
    \/ EditMessage(p, inputs)
    \/ ConfirmCreate(p)
    \/ Sync(p)

Step(p, inputs) == Start(p) \/ Run(p, inputs) \/ Exit(p)

Environment ==
    \/ Checkout
    \/ Push
    \/ PeerPropose
    \/ PeerMerge
    \/ PeerReview

\* One invocation at a time, of a user who gives patches the title "a".
Next == Step("p1", PlainInputs) \/ Environment

Spec == Init /\ [][Next]_vars

\* One invocation at a time, of a user who saves any of the buffers in the
\* editor and moves HEAD between invocations.
NextEdit == Step("p1", EditorInputs) \/ Checkout

SpecEdit == Init /\ [][NextEdit]_vars

\* Two terminals in one working copy: I have proposed the commit B as a
\* patch, every commit has been pushed, and in each terminal the command is
\* run once, while the other runs and while HEAD moves.
InitConc ==
    /\ HEAD = "B"
    /\ tips = [p \in Peers |-> IF p = UpstreamPeer THEN "A" ELSE "none"]
    /\ monorepo = Commits
    /\ patches = << [author |-> [urn |-> Whoami, resolved |-> FALSE],
                     title |-> <<"a">>, target |-> "Upstream",
                     revisions |-> <<Revision("B")>>] >>
    /\ inv = [p \in Procs |-> Idle]

NextConc == (\E p \in Procs : Begin(p) \/ Run(p, PlainInputs)) \/ MoveHead

SpecConc == InitConc /\ [][NextConc]_vars

\* The merges and the reviews replication may have brought to a revision:
\* at most one review of each peer.
MergeSets ==
    SUBSET {[peer |-> "me", timestamp |-> 3], [peer |-> "X", timestamp |-> 2]}

ReviewSets ==
    LET all == {[peer |-> "X", verdict |-> "Accept", timestamp |-> 1,
                 resolved |-> FALSE],
                [peer |-> "me", verdict |-> "Accept", timestamp |-> 2,
                 resolved |-> FALSE],
                [peer |-> "X", verdict |-> "Accept", timestamp |-> 3,
                 resolved |-> FALSE]}
    IN  {rs \in SUBSET all : \A a, b \in rs : a.peer = b.peer => a = b}

\* A revision with the merges and the reviews it has got.
RevisionWith(oid, merges, reviews) ==
    [oid |-> oid, merges |-> merges, reviews |-> reviews]

\* The histories of a patch of mine: proposed at B, perhaps updated to C,
\* with the events each revision has got.
ListHistories ==
    LET last(oid) == {RevisionWith(oid, ms, rs) : ms \in MergeSets, rs \in ReviewSets}
        first     == {Revision("B"),
                      RevisionWith("B", {[peer |-> "me", timestamp |-> 3]}, {}),
                      RevisionWith("B", {}, {r \in UNION ReviewSets : r.timestamp < 3})}
    IN  {<<r>> : r \in last("B")} \cup {<<r1, r2>> : r1 \in first, r2 \in last("C")}

\* One invocation at a time, in a project where replication has brought
\* merges and reviews to my patch, and perhaps a patch of another author.
InitList ==
    /\ HEAD = "C"
    /\ tips = [p \in Peers |-> IF p = UpstreamPeer THEN "A" ELSE "none"]
    /\ monorepo = {"A", "B", "C"}
    /\ \E h \in ListHistories, others \in BOOLEAN :
          LET mine   == [author |-> [urn |-> Whoami, resolved |-> FALSE],
                         title |-> <<"a">>, target |-> "Upstream",
                         revisions |-> h]
              theirs == [author |-> [urn |-> "X", resolved |-> FALSE],
                         title |-> <<"a">>, target |-> "Upstream",
                         revisions |-> <<Revision("C")>>]
          IN  patches = IF others THEN <<mine, theirs>> ELSE <<mine>>
    /\ inv = [p \in Procs |-> Idle]

NextList == Step("p1", PlainInputs)

SpecList == InitList /\ [][NextList]_vars

----------------------------------------------------------------------------
(* Properties *)

\* The positions of the create flow after the update option was resolved.
PastMode == {"confirmUpdate", "confirmRevision", "continue", "editor",
             "confirmCreate", "sync", "done"}

\* The invocation resolved its update option: its head was found in storage
\* and it had one merge target.
ResolvedMode(p) == inv[p].pc \in PastMode /\ inv[p].merge_base_oid # "none"

LastOid(patch) == patch.revisions[Len(patch.revisions)].oid

\* C1: a successful update returns the version the patch had before the update
\* plus one, which is the index of the revision it appended, and the assertion
\* on the returned version never fails.
UpdateReturnsNextVersion ==
    \A p \in Procs :
        LET me == inv[p]
        IN  /\ me.result # "PanicAssert"
            /\ (me.update.kind # "No" /\ me.writes = 1) =>
                  /\ me.new = (Len(me.store0[me.patch_id].revisions) - 1) + 1
                  /\ me.new = me.current + 1
                  /\ me.new = Len(patches[me.patch_id].revisions) - 1
                  /\ patches[me.patch_id].revisions[me.new + 1].oid = me.head_oid

UpdateReturnsNextVersionWitness ==
    \E p \in Procs :
        /\ inv[p].update.kind # "No"
        /\ inv[p].writes = 1
        /\ inv[p].new = 1
        /\ inv[p].result = "Ok"

\* C2: an update of a patch whose latest revision is HEAD says there is
\* nothing to do and succeeds, without a store write, a sync or a prompt of
\* its own.
NoOpUpdate ==
    \A p \in Procs :
        LET me == inv[p]
        IN  ( /\ me.update.kind # "No"
              /\ me.patch_id # 0
              /\ me.pc # "confirmUpdate"
              /\ me.asked[1].answer
              /\ LastOid(me.patch) = me.head_oid )
            => /\ me.pc = "done"
               /\ me.result = "Ok"
               /\ ExitCode(me.result) = 0
               /\ me.message = "NothingToDo"
               /\ me.asked = <<Asked("Update?", TRUE)>>
               /\ me.writes = 0
               /\ me.syncs = 0
               /\ patches = me.store0

NoOpUpdateWitness ==
    \E p \in Procs :
        /\ inv[p].message = "NothingToDo"
        /\ Len(inv[p].patch.revisions) = 2
        /\ LastOid(inv[p].patch) = inv[p].head_oid

\* A patch of mine in the store the invocation started from whose latest
\* revision is the head the invocation read.
MineAtHead(p, i) ==
    /\ inv[p].store0[i].author.urn = Whoami
    /\ LastOid(inv[p].store0[i]) = inv[p].head_oid

\* C3, as claimed: the auto-match update of the author's patch that is at HEAD
\* succeeds with "Nothing to do" and no new revision.
AutoUpdateAtHeadNothingToDo ==
    \A p \in Procs :
        LET me == inv[p]
        IN  ( /\ me.update.kind = "Any"
              /\ ResolvedMode(p)
              /\ me.pc = "done"
              /\ Len(me.store0) = 1
              /\ MineAtHead(p, 1) )
            => /\ me.result = "Ok"
               /\ me.message = "NothingToDo"
               /\ patches = me.store0

\* C3, amended: the auto-match update never selects a patch of the author that
\* is at HEAD and never says "Nothing to do"; that patch gets no revision, and
\* if the author has no other patch the flow fails with NoUpdateCandidate.
AutoUpdateAtHeadNoCandidate ==
    \A p \in Procs :
        LET me == inv[p]
            others == {i \in 1..Len(me.store0) :
                           me.store0[i].author.urn = Whoami /\ ~MineAtHead(p, i)}
        IN  (me.update.kind = "Any" /\ ResolvedMode(p)) =>
               /\ me.message # "NothingToDo"
               /\ \A i \in 1..Len(me.store0) :
                     MineAtHead(p, i) =>
                        /\ me.patch_id # i
                        /\ patches[i] = me.store0[i]
               /\ others = {} =>
                     /\ me.pc = "done"
                     /\ me.result = "NoUpdateCandidate"
                     /\ ExitCode(me.result) # 0
                     /\ patches = me.store0

AutoUpdateAtHeadWitness ==
    \E p \in Procs :
        /\ inv[p].update.kind = "Any"
        /\ ResolvedMode(p)
        /\ inv[p].result = "NoUpdateCandidate"
        /\ Len(inv[p].store0) = 1
        /\ MineAtHead(p, 1)
        /\ Len(inv[p].store0[1].revisions) = 2

\* C4: the matcher returns exactly the patches of the author whose latest
\* revision has no merges, is not the head and forks from the merge base, in
\* store order.
MatchSpecificity ==
    \A p \in Procs :
        LET me    == inv[p]
            store == me.store0
            r     == me.candidates
            Matches(i) ==
                /\ store[i].author.urn = Whoami
                /\ store[i].revisions[Len(store[i].revisions)].merges = {}
                /\ LastOid(store[i]) # me.head_oid
                /\ merge_base(LastOid(store[i]), me.target_oid) = me.merge_base_oid
        IN  (me.update.kind = "Any" /\ ResolvedMode(p)) =>
               /\ {r[k] : k \in 1..Len(r)} = {i \in 1..Len(store) : Matches(i)}
               /\ \A k \in 1..(Len(r) - 1) : r[k] < r[k + 1]

MatchSpecificityWitness ==
    \E p \in Procs :
        /\ inv[p].update.kind = "Any"
        /\ ResolvedMode(p)
        /\ Len(inv[p].store0) = 2
        /\ inv[p].candidates = <<2>>
        /\ inv[p].store0[1].author.urn # Whoami

\* C5: in update mode Any no candidate fails with NoUpdateCandidate, several
\* candidates fail with AmbiguousUpdate, both without a change of the store,
\* and a single candidate is the patch offered for update, which is written
\* only after "Update?" was answered with yes.
AutoUpdateBranching ==
    \A p \in Procs :
        LET me == inv[p]
            r  == me.candidates
        IN  (me.update.kind = "Any" /\ ResolvedMode(p)) =>
               /\ Len(r) = 0 =>
                     /\ me.pc = "done" /\ me.result = "NoUpdateCandidate"
                     /\ me.patch_id = 0 /\ me.writes = 0
                     /\ patches = me.store0
               /\ Len(r) = 1 =>
                     /\ me.patch_id = r[1]
                     /\ me.patch = me.store0[r[1]]
                     /\ me.result \notin {"NoUpdateCandidate", "AmbiguousUpdate"}
                     /\ \A i \in 1..Len(me.store0) :
                           i # r[1] => patches[i] = me.store0[i]
                     /\ me.writes > 0 => me.asked[1] = Asked("Update?", TRUE)
               /\ Len(r) > 1 =>
                     /\ me.pc = "done" /\ me.result = "AmbiguousUpdate"
                     /\ me.patch_id = 0 /\ me.writes = 0
                     /\ patches = me.store0

AutoUpdateBranchingWitness ==
    \E p \in Procs :
        /\ inv[p].update.kind = "Any"
        /\ ResolvedMode(p)
        /\ Len(inv[p].candidates) = 2
        /\ inv[p].result = "AmbiguousUpdate"

\* C6: when the HEAD commit is not found in storage the flow ends, in every
\* update mode, with the error that hints at git push rad, before a target is
\* resolved, the matcher is asked, a prompt is shown or the store is written.
HeadNotInStorage ==
    \A p \in Procs :
        LET me == inv[p]
        IN  ( /\ me.head_oid # "none"
              /\ me.head_oid \notin monorepo
              /\ me.pc # "verify" )
            => /\ me.pc = "done"
               /\ me.result = "HeadNotInStorage"
               /\ Hint(me.result) = "hint: run git push rad and try again"
               /\ ExitCode(me.result) # 0
               /\ me.target_oid = "none" /\ me.merge_base_oid = "none"
               /\ me.candidates = <<>> /\ me.patch_id = 0
               /\ me.asked = <<>>
               /\ me.writes = 0 /\ me.syncs = 0
               /\ patches = me.store0

HeadNotInStorageWitness ==
    \E p \in Procs :
        /\ inv[p].result = "HeadNotInStorage"
        /\ inv[p].update.kind = "Patch"
        /\ inv[p].update.id \in 1..Len(patches)
        /\ inv[p].head_oid \notin monorepo

\* C7: the list flow leaves the store as it was: the names are resolved in
\* the copies it shows, and it neither writes to the store nor syncs.
ListReadOnly ==
    \A p \in Procs :
        (inv[p].list /\ inv[p].pc = "done") =>
            /\ patches = inv[p].store0
            /\ inv[p].writes = 0
            /\ inv[p].syncs = 0
            /\ inv[p].result = "Ok"

ListReadOnlyWitness ==
    \E p \in Procs :
        /\ inv[p].list /\ inv[p].pc = "done"
        /\ Len(inv[p].out) = 2
        /\ inv[p].out[1].patch.author.resolved
        /\ ~patches[inv[p].out[1].id].author.resolved
        /\ \E i \in 1..Len(patches) :
              \E j \in 1..Len(patches[i].revisions) :
                 patches[i].revisions[j].reviews # {}

\* C8: a negative answer at a prompt, or an editor closed without saving,
\* ends the flow with UserAbort and a non-zero exit, without a store write or
\* a sync; a store write has a positive answer to every prompt on its path.
UserAbortNoEffect ==
    \A p \in Procs :
        LET me == inv[p]
            declined == \E k \in 1..Len(me.asked) : ~me.asked[k].answer
        IN  /\ declined =>
                  /\ me.pc = "done"
                  /\ me.result = "UserAbort"
                  /\ ExitCode(me.result) # 0
                  /\ ~me.asked[Len(me.asked)].answer
                  /\ me.writes = 0 /\ me.syncs = 0
                  /\ patches = me.store0
            /\ me.result = "UserAbort" => declined
            /\ me.writes > 0 =>
                  me.asked = IF me.update.kind = "No"
                             THEN <<Asked("Continue?", TRUE), Asked("editor", TRUE),
                                    Asked("Create patch?", TRUE)>>
                             ELSE <<Asked("Update?", TRUE), Asked("Continue?", TRUE)>>

UserAbortNoEffectWitness ==
    \E p \in Procs :
        /\ inv[p].result = "UserAbort"
        /\ inv[p].asked = <<Asked("Continue?", TRUE), Asked("editor", TRUE),
                            Asked("Create patch?", FALSE)>>

\* The not-merged targets of a head: the tracked peers whose default branch
\* exists and does not contain the head.
NotMergedPeers(h) ==
    {peer \in Peers : tips[peer] # "none" /\ h \notin Ancestors(tips[peer])}

\* C9: with more than one not-merged target the create flow fails with the
\* error AmbiguousTarget, it does not panic, and the store is unchanged.
AmbiguousTargetFailsCleanly ==
    \A p \in Procs :
        LET me == inv[p]
        IN  ( /\ me.pc = "done"
              /\ me.head_oid \in monorepo
              /\ Cardinality(NotMergedPeers(me.head_oid)) > 1 )
            => /\ me.result = "AmbiguousTarget"
               /\ me.result \notin Panics
               /\ patches = me.store0

\* C10: with no not-merged target the create flow fails with NoMergeTarget in
\* every update mode; no patch is created and no revision is appended.
NoMergeTarget ==
    \A p \in Procs :
        LET me == inv[p]
        IN  ( /\ me.head_oid \in monorepo
              /\ me.pc \notin {"verify", "targets"}
              /\ NotMergedPeers(me.head_oid) = {} )
            => /\ me.pc = "done"
               /\ me.result = "NoMergeTarget"
               /\ ExitCode(me.result) # 0
               /\ me.patch_id = 0
               /\ me.writes = 0
               /\ patches = me.store0

NoMergeTargetWitness ==
    \E p \in Procs :
        /\ inv[p].result = "NoMergeTarget"
        /\ inv[p].update.kind = "Any"
        /\ \E peer \in Peers : tips[peer] # "none"
        /\ patches # <<>>


----------------------------------------------------------------------------
(* The order of the steps of a flow *)

\* The steps of the create and update flows, in the order of the code.
FlowOrder == <<"head", "verify", "target", "write", "sync">>

IsPrefix(s, t) == Len(s) <= Len(t) /\ SubSeq(t, 1, Len(s)) = s

\* The tips of the tracked peers that have not merged commit h.
NotMergedOids(h) ==
    {tips[q] : q \in {r \in Peers : tips[r] # "none" /\ h \notin Ancestors(tips[r])}}

\* C11: the steps of a create or update flow happen in the order read HEAD,
\* verify HEAD in storage, resolve the merge target, write to the store,
\* sync; the store is written only after HEAD was read, found in storage and
\* a merge target was resolved in this invocation, and sync happens only
\* after a successful store write.
StepOrder ==
    \A p \in Procs :
       LET me == inv[p]
           n  == Len(me.steps)
       IN  /\ IsPrefix(me.steps, FlowOrder)
           /\ n >= 1 => me.head_oid \in Commits
           /\ n >= 2 => me.head_oid \in monorepo
           /\ n >= 3 => me.target_oid \in NotMergedOids(me.head_oid)
           /\ me.writes <= 1
           /\ me.writes = 1 <=> n >= 4
           /\ me.pc = "sync" => n = 4
           /\ me.syncs > 0 <=> n = 5

StepOrderWitness ==
    \E p \in Procs : inv[p].steps = FlowOrder /\ inv[p].pc = "done"

\* C12: every revision in the store has an oid that is in storage; a
\* revision a flow wrote has the oid the invocation looked up and found in
\* storage before the write, and the store never rejects the oid of a
\* create or update as unknown.
RevisionOidsInStorage ==
    /\ \A i \in PatchIds : \A j \in 1..Len(patches[i].revisions) :
          patches[i].revisions[j].oid \in monorepo
    /\ \A p \in Procs :
          LET me == inv[p]
          IN  /\ me.result # "InvalidOid"
              /\ me.writes > 0 =>
                    /\ IsPrefix(<<"head", "verify">>, me.steps)
                    /\ me.head_oid \in monorepo
                    /\ LastOid(patches[me.patch_id]) = me.head_oid

RevisionOidsInStorageWitness ==
    \E p \in Procs :
       /\ inv[p].writes = 1
       /\ inv[p].update.kind = "Any"
       /\ Len(patches[inv[p].patch_id].revisions) = 2


----------------------------------------------------------------------------
(* The history of a patch *)

\* C13: in every patch no revision has the oid of the revision before it,
\* and an update to the oid the patch already has is turned down by the flow
\* before the store is asked: the store never answers NoOp.
NoDuplicateRevisions ==
    /\ \A i \in PatchIds : \A j \in 2..Len(patches[i].revisions) :
          patches[i].revisions[j].oid # patches[i].revisions[j - 1].oid
    /\ \A p \in Procs : inv[p].result # "NoOp"

NoDuplicateRevisionsWitness ==
    \E p \in Procs :
       /\ inv[p].writes = 1
       /\ inv[p].update.kind = "Patch"
       /\ Len(patches[inv[p].patch_id].revisions) = 2
       /\ inv[p].new = 1

\* What every step keeps of the patches the store holds.
AppendOnlyStep ==
    /\ Len(patches') >= Len(patches)
    /\ \A i \in 1..Len(patches) :
          /\ patches'[i].author.urn = patches[i].author.urn
          /\ Len(patches'[i].revisions) \in
                 {Len(patches[i].revisions), Len(patches[i].revisions) + 1}
          /\ \A j \in 1..Len(patches[i].revisions) :
                patches'[i].revisions[j].oid = patches[i].revisions[j].oid
          /\ inv' # inv => IsPrefix(patches[i].revisions, patches'[i].revisions)

\* C14: the revisions of a patch change only by one revision appended at the
\* end (the steps of the list, create and update flows leave every existing
\* revision as it is, replication only adds merges and reviews to it), the
\* urn of the author of a patch never changes, and no patch is deleted.
AppendOnly == [][AppendOnlyStep]_vars

AppendOnlyWitness ==
    \E p \in Procs :
       /\ inv[p].writes = 1
       /\ inv[p].update.kind # "No"
       /\ Len(inv[p].store0) = 2
       /\ Len(patches[inv[p].patch_id].revisions)
              = Len(inv[p].store0[inv[p].patch_id].revisions) + 1

\* The answers the invocation has got to its prompts.
Answers(p) == {inv[p].asked[k] : k \in 1..Len(inv[p].asked)}

----------------------------------------------------------------------------
(* The effects of the create and update flows *)

\* Every prompt the invocation has shown was confirmed.
AllConfirmed(p) == \A a \in Answers(p) : a.answer

\* Patch j of the store the invocation started with is one I created at
\* commit B, with no merge and no review yet, and I have no other patch.
CreatedAtB(p, j) ==
    /\ inv[p].store0[j].author.urn = Whoami
    /\ inv[p].store0[j].target = "Upstream"
    /\ inv[p].store0[j].revisions = <<Revision("B")>>
    /\ \A k \in 1..Len(inv[p].store0) :
          k # j => inv[p].store0[k].author.urn # Whoami

\* C16: with a patch created at B against the single not-merged target A
\* and HEAD advanced to C, a child of B, the auto-match update confirmed at
\* its prompts appends a revision with oid C to that patch: its revisions
\* are B, C, the version returned is 1, and no patch is added.
CreateThenAutoUpdate ==
    \A p \in Procs :
       LET me == inv[p]
       IN  \A j \in 1..Len(me.store0) :
              ( /\ me.pc = "done"
                /\ me.update.kind = "Any"
                /\ me.head_oid = "C"
                /\ find_merge_targets("C").not_merged = <<Target(UpstreamPeer)>>
                /\ tips[UpstreamPeer] = "A"
                /\ CreatedAtB(p, j)
                /\ AllConfirmed(p) )
              => /\ me.patch_id = j
                 /\ patches = [me.store0 EXCEPT
                                  ![j].revisions = <<Revision("B"), Revision("C")>>]
                 /\ me.new = 1
                 /\ me.result \in {"Ok", "SyncFailed"}

CreateThenAutoUpdateWitness ==
    \E p \in Procs :
       /\ inv[p].pc = "done"
       /\ inv[p].update.kind = "Any"
       /\ inv[p].head_oid = "C"
       /\ tips[UpstreamPeer] = "A"
       /\ Len(inv[p].store0) = 1
       /\ CreatedAtB(p, 1)
       /\ Len(patches) = 1
       /\ patches[1].revisions = <<Revision("B"), Revision("C")>>
       /\ inv[p].new = 1

\* C17: a create flow in update mode No that the user confirmed adds one
\* patch after the patches the store held: its target is Upstream, its
\* author the acting identity, its title the one parsed, and its revisions
\* are one revision with the oid of HEAD, no merge and no review; the
\* patches the store held are unchanged.
CreateEffect ==
    \A p \in Procs :
       LET me == inv[p]
           n  == Len(me.store0)
       IN  ( /\ me.update.kind = "No"
             /\ Asked("Create patch?", TRUE) \in Answers(p) )
           => /\ me.writes = 1
              /\ Len(patches) = n + 1
              /\ SubSeq(patches, 1, n) = me.store0
              /\ me.patch_id = n + 1
              /\ patches[n + 1].target = "Upstream"
              /\ patches[n + 1].author.urn = Whoami
              /\ patches[n + 1].title = me.title
              /\ patches[n + 1].revisions =
                     <<[oid |-> HEAD, merges |-> {}, reviews |-> {}]>>

CreateEffectWitness ==
    \E p \in Procs :
       /\ inv[p].update.kind = "No"
       /\ inv[p].writes = 1
       /\ inv[p].pc = "done"
       /\ Len(inv[p].store0) = 1
       /\ Len(patches) = 2

\* C20: sync runs at most once in an invocation, only with the sync option
\* on and after the one store write of the invocation; never with
\* --no-sync, never in a flow that was aborted, failed or had nothing to
\* do, never in the list flow.
SyncToggle ==
    \A p \in Procs :
       LET me == inv[p]
       IN  /\ me.syncs <= 1
           /\ (me.pc = "sync" \/ me.syncs = 1) =>
                 /\ me.sync
                 /\ me.writes = 1
                 /\ ~ me.list
                 /\ me.message # "NothingToDo"
           /\ me.pc = "sync" => me.syncs = 0 /\ me.result = "none"
           /\ me.syncs = 1 => me.pc = "done" /\ me.result \in {"Ok", "SyncFailed"}
           /\ ~ me.sync => me.syncs = 0 /\ me.pc # "sync"
           /\ (me.pc = "done" /\ me.result = "Ok" /\ me.sync /\ me.writes = 1)
                 => me.syncs = 1

SyncToggleWitness ==
    \E p \in Procs :
       /\ ~ inv[p].sync
       /\ inv[p].writes = 1
       /\ inv[p].pc = "done"
       /\ inv[p].result = "Ok"
       /\ inv[p].syncs = 0


----------------------------------------------------------------------------
(* The editor, and invocations that run at the same time *)

\* C18: a title that is empty after trimming ends the create flow with
\* EmptyTitle before the patch is created: the flow never comes to ask
\* "Create patch?" with an empty title, and no patch in the store has an
\* empty title.
EmptyTitleAborts ==
    /\ \A i \in PatchIds : patches[i].title # <<>>
    /\ \A p \in Procs :
          /\ inv[p].pc = "confirmCreate" => inv[p].title # <<>>
          /\ (inv[p].writes = 1 /\ inv[p].update.kind = "No")
                => inv[p].title # <<>>

\* C19: of invocations that update a patch at the same time, each one whose
\* store.update succeeds gets the version it read before plus one, so the
\* assertion on the version fails in none of them, and no patch gets two
\* consecutive revisions with the same oid.
ConcurrentUpdatesIndependent ==
    /\ \A p \in Procs :
          /\ inv[p].result # "PanicAssert"
          /\ (inv[p].writes = 1 /\ inv[p].update.kind # "No")
                => inv[p].new = inv[p].current + 1
    /\ \A i \in PatchIds : \A j \in 2..Len(patches[i].revisions) :
          patches[i].revisions[j].oid # patches[i].revisions[j - 1].oid


----------------------------------------------------------------------------
(* The patch message *)

HelpTokens == {"<", ">"}

HasHelp(text) == \E k \in 1..Len(text) : text[k] \in HelpTokens

\* The invocation has parsed the buffer the editor returned.
Parsed(p) ==
    /\ Asked("editor", TRUE) \in Answers(p)
    /\ inv[p].result # "InvalidMessage"

\* C21: of a saved buffer the title is the trimmed text before the first
\* blank line and the description the trimmed text after it, without the
\* help block; when the buffer is the message of the commit followed by the
\* help block as it was seeded, no text of the help block is in the title or
\* in the description.
EditorRoundTrip ==
    \A p \in Procs :
       LET me    == inv[p]
           parts == split_once(trim_newlines(me.saved), <<"n", "n">>)
       IN  Parsed(p) =>
              /\ parts.found
              /\ ~ HasHelp(me.saved) =>
                    /\ me.title = trim(parts.before)
                    /\ me.description = trim(parts.after)
              /\ (\E m \in Messages : me.saved = Seeded(m)) =>
                    /\ ~ HasHelp(me.title)
                    /\ ~ HasHelp(me.description)


----------------------------------------------------------------------------
(* The timeline of a listed patch *)

\* The entries of a timeline, as a set.
Entries(t) == {t[k] : k \in 1..Len(t)}

\* C22: the timeline shown of a listed patch has one entry for each merge
\* and each review of the latest revision of the patch and no other entry,
\* and its timestamps never increase from one entry to the next.
ListTimeline ==
    \A p \in Procs :
       (inv[p].pc = "done" /\ inv[p].list) =>
          \A k \in 1..Len(inv[p].out) :
             LET shown == inv[p].out[k]
                 t     == shown.timeline
                 rev   == patches[shown.id].revisions[Len(patches[shown.id].revisions)]
             IN  /\ Len(t) = Cardinality(rev.merges) + Cardinality(rev.reviews)
                 /\ \A m \in rev.merges :
                       \E e \in Entries(t) : /\ e.kind = "merged"
                                             /\ e.peer = m.peer
                                             /\ e.timestamp = m.timestamp
                 /\ \A r \in rev.reviews :
                       \E e \in Entries(t) : /\ e.kind = r.verdict
                                             /\ e.peer = r.peer
                                             /\ e.timestamp = r.timestamp
                 /\ \A j \in 1..(Len(t) - 1) : t[j].timestamp >= t[j + 1].timestamp

ListTimelineWitness ==
    \E p \in Procs :
       /\ inv[p].pc = "done"
       /\ inv[p].list
       /\ \E k \in 1..Len(inv[p].out) :
             LET shown == inv[p].out[k]
             IN  /\ Len(shown.timeline) = 3
                 /\ shown.timeline[1].timestamp > shown.timeline[3].timestamp
                 /\ Len(patches[shown.id].revisions) = 2
                 /\ patches[shown.id].revisions[1].reviews # {}


----------------------------------------------------------------------------
(* One write, of the kind the options ask for *)

Prompts(p) == {a.prompt : a \in Answers(p)}

\* C23: an invocation writes to the store at most once; in update mode No
\* it never comes to store.update and changes no patch the store held; in
\* update mode Any or Patch it never comes to store.create and adds no
\* patch: it ends with one revision appended to the patch it selected, with
\* nothing to do, or with an error.
ModeExclusive ==
    \A p \in Procs :
       LET me == inv[p]
           n  == Len(me.store0)
       IN  /\ me.writes <= 1
           /\ (me.pc # "idle" /\ me.update.kind = "No") =>
                 /\ me.pc \notin {"confirmUpdate", "confirmRevision"}
                 /\ Prompts(p) \cap {"Update?"} = {}
                 /\ me.result \notin {"NotOwner", "NoOp", "PanicAssert"}
                 /\ Len(patches) >= n
                 /\ SubSeq(patches, 1, n) = me.store0
           /\ (me.pc # "idle" /\ me.update.kind # "No") =>
                 /\ me.pc \notin {"continue", "editor", "confirmCreate"}
                 /\ Prompts(p) \cap {"Create patch?", "editor"} = {}
                 /\ Len(patches) = n
                 /\ me.pc = "done" =>
                       \/ /\ me.writes = 1
                          /\ patches = [me.store0 EXCEPT ![me.patch_id].revisions =
                                           Append(@, Revision(me.head_oid))]
                       \/ /\ me.writes = 0
                          /\ me.message = "NothingToDo"
                          /\ patches = me.store0
                       \/ /\ me.writes = 0
                          /\ ExitCode(me.result) # 0
                          /\ patches = me.store0

ModeExclusiveWitness ==
    \E p \in Procs :
       /\ inv[p].pc = "done"
       /\ inv[p].update.kind = "Patch"
       /\ Asked("Update?", FALSE) \in Answers(p)
       /\ inv[p].result = "UserAbort"
       /\ Len(patches) = 1

\* C24: an invocation that ends with an error has left the store as it
\* was, unless the error is that of the sync after the write: then the
\* patch or the revision it wrote is still in the store.
ErrorAfterCommit ==
    \A p \in Procs :
       LET me == inv[p]
       IN  (me.pc = "done" /\ ExitCode(me.result) # 0) =>
              IF me.result = "SyncFailed"
              THEN /\ me.writes = 1
                   /\ me.syncs = 1
                   /\ patches # me.store0
                   /\ me.patch_id \in PatchIds
                   /\ LastOid(patches[me.patch_id]) = me.head_oid
              ELSE /\ me.writes = 0
                   /\ patches = me.store0

ErrorAfterCommitWitness ==
    \E p \in Procs :
       /\ inv[p].pc = "done"
       /\ inv[p].result = "SyncFailed"
       /\ inv[p].update.kind = "No"
       /\ Len(patches) = Len(inv[p].store0) + 1

====
